---- MODULE Spec2Model ----
(***************************************************************************)
(* Order pipeline of projeto-aws: the Express API (POST /pedidos), the     *)
(* DynamoDB table "pedidos", and the lambdas lambda-preparacao,            *)
(* lambda-envio, lambda-confirmacao and lambda-notificacao.                *)
(*                                                                         *)
(* Items are kept in DynamoDB's typed form: an attribute value is one of   *)
(* [S |-> s], [N |-> n], [NULL |-> TRUE]; an item is a record holding only *)
(* the attributes that are present.  Strings whose characters the code     *)
(* inspects (S3 keys, file names) are sequences of one-character strings.  *)
(* An ISO-8601 timestamp string is <<"iso", ms>>.                          *)
(***************************************************************************)
EXTENDS Integers, Sequences, FiniteSets, TLC

VARIABLES
    tabela,        \* DynamoDB table: idPedido -> item (only existing keys)
    agora,         \* wall clock, milliseconds
    resposta,      \* the response most recently returned by a handler
    preparacao,    \* lambda-preparacao invocations, one per caller
    envio,         \* lambda-envio invocation (scheduled sweep)
    bucket,        \* S3 bucket: key -> user metadata
    confirmacao,   \* lambda-confirmacao invocation (S3 event batch)
    notificacao,   \* lambda-notificacao invocation (stream batch)
    ses            \* SendEmailCommand calls issued to SES, in order

vars == <<tabela, agora, resposta, preparacao, envio, bucket, confirmacao,
          notificacao, ses>>

----------------------------------------------------------------------------
(* Bounds *)

MaxPedidos == 1        \* orders created in the pipeline specification
MaxPedidosEnvio == 2   \* orders created in the sweep specification
MaxTicks == 1          \* clock steps of the pipeline specification
MaxTicksEnvio == 2     \* clock steps of the sweep specification
TickMinutos == 3       \* minutes added by one clock step

----------------------------------------------------------------------------
(* JavaScript values *)

Undefined == "undefined"

AttrS(s) == [S |-> s]
AttrN(n) == [N |-> n]
AttrNULL == [NULL |-> TRUE]

\* attr?.S on a typed attribute value (or on a missing attribute)
OptS(image, nome) ==
    IF nome \in DOMAIN image /\ "S" \in DOMAIN image[nome]
    THEN image[nome].S ELSE Undefined

\* the identifiers randomUUID() returns while at most max orders are
\* created; Fantasmas are identifiers that requests name but no order has
UUIDs(max) == {"u" \o ToString(i) : i \in 1..max}
Fantasmas == {"g1"}

Emails == {"ana@x"}
Nomes == {"Ana"}

MsPorMinuto == 1000 * 60
LimiteMinutos == 4

toISOString(ms) == <<"iso", ms>>
\* new Date(isoString) - 0 : the instant in milliseconds
DateParse(iso) == iso[2]

\* what a handler returned: an HTTP status, or 0 with throw for an error
\* thrown to the invoker
Resposta(de, statusCode, idPedido) ==
    [de |-> de, statusCode |-> statusCode, idPedido |-> idPedido]

SemResposta == Resposta("", 0, Undefined)

----------------------------------------------------------------------------
(* DynamoDB (lib-dynamodb document client) *)

HasItem(t, id) == id \in DOMAIN t

\* PutCommand: replaces the whole item under its key
PutItem(t, item) ==
    [k \in DOMAIN t \cup {item.idPedido.S} |->
        IF k = item.idPedido.S THEN item ELSE t[k]]

\* UpdateCommand with a SET expression: the named attributes are written and
\* the others kept; when no item has the key, one is created from the key
\* and the SET attributes (no ConditionExpression is given).
UpdateItem(t, id, sets) ==
    LET antes == IF HasItem(t, id) THEN t[id] ELSE [idPedido |-> AttrS(id)]
        depois == sets @@ antes
    IN  [k \in DOMAIN t \cup {id} |-> IF k = id THEN depois ELSE t[k]]

\* Scan without its FilterExpression
ScanTudo(t, status) == DOMAIN t

\* ScanCommand with FilterExpression '#status = :status'
Scan(t, status) ==
    {id \in DOMAIN t : "status" \in DOMAIN t[id] /\ t[id].status = AttrS(status)}

----------------------------------------------------------------------------
(* POST /pedidos *)

\* FalsyStr taking only an empty string, not an absent field, for falsy
FalsyStrSoVazio(body, campo) == campo \in DOMAIN body /\ body[campo] = ""

\* !x for the values a request body carries
FalsyStr(body, campo) == campo \notin DOMAIN body \/ body[campo] = ""
FalsyNum(body, campo) == campo \notin DOMAIN body \/ body[campo] = 0

StatusPadrao == "RECEBIDO"

\* x || null, marshalled
OuNull(body, campo) ==
    IF campo \in DOMAIN body THEN AttrS(body[campo]) ELSE AttrNULL

\* randomUUID returning identifiers that may be in use already
randomUUIDRepetido(max) == UUIDs(max)

\* parseFloat(valor) of a JSON number: the number itself
parseFloat(valor) == valor

\* randomUUID() never returns an identifier already in use
randomUUID(max) == UUIDs(max) \ DOMAIN tabela

\* a field destructured from req.body: undefined when the body lacks it
Campo(body, campo) == IF campo \in DOMAIN body THEN body[campo] ELSE Undefined

NovoPedido(body, id) ==
    [idPedido       |-> AttrS(id),
     emailCliente   |-> AttrS(Campo(body, "emailCliente")),
     nomeCliente    |-> AttrS(Campo(body, "nomeCliente")),
     valor          |-> AttrN(parseFloat(Campo(body, "valor"))),
     data           |-> AttrS(toISOString(agora)),
     status         |-> AttrS(IF "status" \in DOMAIN body
                              THEN body.status ELSE StatusPadrao),
     referenciaNota |-> OuNull(body, "referenciaNota"),
     dataEnvio      |-> OuNull(body, "dataEnvio")]

POSTPedidos(body, max) ==
    /\ IF \/ FalsyStr(body, "emailCliente")
          \/ FalsyStr(body, "nomeCliente")
          \/ FalsyNum(body, "valor")
       THEN /\ resposta' = Resposta("POST /pedidos", 400, Undefined)
            /\ UNCHANGED tabela
       ELSE \E id \in randomUUID(max) :
                /\ tabela' = PutItem(tabela, NovoPedido(body, id))
                /\ resposta' = Resposta("POST /pedidos", 201, id)
    /\ UNCHANGED <<agora, preparacao, envio, bucket, confirmacao,
                   notificacao, ses>>

----------------------------------------------------------------------------
(* lambda-preparacao: GetCommand, then UpdateCommand (two awaits) *)

Chamadores == {"api", "envio"}

PreparacaoIdle == [pc |-> "idle", idPedido |-> Undefined]

\* PreparacaoGet without the check that the item exists
PreparacaoGetSemItem(idPedido) == IF idPedido = "" THEN 400 ELSE 0

\* the handler up to the result of its GetCommand: the status it returns
\* there (400, 404), or 0 when it goes on to the update
PreparacaoGet(idPedido) ==
    IF idPedido = "" THEN 400
    ELSE IF ~HasItem(tabela, idPedido) THEN 404
    ELSE 0

PreparacaoSets == [status |-> AttrS("PREPARACAO")]

\* PreparacaoUpdate as a PutCommand of the key and the new status
PreparacaoUpdatePut(idPedido) ==
    PutItem(tabela, [idPedido |-> AttrS(idPedido)] @@ PreparacaoSets)

\* PreparacaoUpdate stamping the time of the update as well
PreparacaoUpdateCarimbo(idPedido) ==
    UpdateItem(tabela, idPedido,
               PreparacaoSets @@ [dataAtualizacao |-> AttrS(toISOString(agora))])

\* PreparacaoUpdate moving the order one stage on from the status it has
PreparacaoUpdateProximo(idPedido) ==
    UpdateItem(tabela, idPedido,
               IF tabela[idPedido].status = AttrS("PREPARACAO")
               THEN [status |-> AttrS("ENVIADO")]
               ELSE PreparacaoSets)

\* the table after the handler's UpdateCommand
PreparacaoUpdate(idPedido) == UpdateItem(tabela, idPedido, PreparacaoSets)

\* POST to the API Gateway endpoint of lambda-preparacao by a client
APIPreparacao(idPedido) ==
    /\ preparacao["api"].pc = "idle"
    /\ IF PreparacaoGet(idPedido) = 0
       THEN /\ preparacao' = [preparacao EXCEPT
                                !["api"] = [pc |-> "update", idPedido |-> idPedido]]
            /\ UNCHANGED resposta
       ELSE /\ resposta' = Resposta("lambda-preparacao",
                                    PreparacaoGet(idPedido), idPedido)
            /\ UNCHANGED preparacao
    /\ UNCHANGED <<tabela, agora, envio, bucket, confirmacao, notificacao, ses>>

\* the client's invocation resumes after the Get: update and 200, or the
\* update fails and the catch block answers 500
APIPreparacaoUpdate(falha) ==
    /\ preparacao["api"].pc = "update"
    /\ IF falha
       THEN /\ resposta' = Resposta("lambda-preparacao", 500,
                                    preparacao["api"].idPedido)
            /\ UNCHANGED tabela
       ELSE /\ tabela' = PreparacaoUpdate(preparacao["api"].idPedido)
            /\ resposta' = Resposta("lambda-preparacao", 200,
                                    preparacao["api"].idPedido)
    /\ preparacao' = [preparacao EXCEPT !["api"] = PreparacaoIdle]
    /\ UNCHANGED <<agora, envio, bucket, confirmacao, notificacao, ses>>

----------------------------------------------------------------------------
(* lambda-envio: scheduled scan, age filter, one POST per pending order *)

StatusScan == "RECEBIMENTO"

\* (agora - new Date(pedido.data)) / (1000 * 60) > 4, in exact arithmetic;
\* an item without data gives NaN, and NaN > 4 is false
Pendente(pedido, t) ==
    /\ "data" \in DOMAIN pedido
    /\ "S" \in DOMAIN pedido.data
    /\ t - DateParse(pedido.data.S) > LimiteMinutos * MsPorMinuto

PedidosPendentes(t) ==
    {id \in Scan(tabela, StatusScan) : Pendente(tabela[id], t)}

\* the items a Scan returns come in no promised order
Ordens(S) ==
    {q \in [1..Cardinality(S) -> S] : \A i, j \in 1..Cardinality(S) :
                                          i # j => q[i] # q[j]}

EnvioIdle ==
    [pc |-> "idle", totalPedidos |-> 0, pedidosPendentes |-> <<>>,
     resultados |-> <<>>]

\* EnvioPush with the sweep given up at the first failed call
EnvioPushAborta(e, sucesso) ==
    LET r == Append(e.resultados,
                    [idPedido |-> e.pedidosPendentes[Len(e.resultados) + 1],
                     sucesso |-> sucesso])
    IN  [e EXCEPT !.resultados = r,
                  !.pc = IF ~sucesso \/ Len(r) = Len(e.pedidosPendentes)
                         THEN "idle" ELSE "loop"]

\* resultados.push(...); after the last pending order the handler returns
EnvioPush(e, sucesso) ==
    LET r == Append(e.resultados,
                    [idPedido |-> e.pedidosPendentes[Len(e.resultados) + 1],
                     sucesso |-> sucesso])
    IN  [e EXCEPT !.resultados = r,
                  !.pc = IF Len(r) = Len(e.pedidosPendentes)
                         THEN "idle" ELSE "loop"]

\* the 200 response of the sweep, once its loop is over
EnvioResposta(e) ==
    IF e.pc = "idle" THEN Resposta("lambda-envio", 200, Undefined)
    ELSE resposta

EnvioScan ==
    /\ envio.pc = "idle"
    /\ \E q \in Ordens(PedidosPendentes(agora)) :
          /\ envio' = [pc |-> IF q = <<>> THEN "idle" ELSE "loop",
                       totalPedidos |-> Cardinality(Scan(tabela, StatusScan)),
                       pedidosPendentes |-> q,
                       resultados |-> <<>>]
          /\ resposta' = EnvioResposta(envio')
    /\ UNCHANGED <<tabela, agora, preparacao, bucket, confirmacao,
                   notificacao, ses>>

\* enviarParaAPI(pedido.idPedido): the request fails, or reaches the lambda,
\* whose Get answers 404 (rejected: not 2xx) or lets it go on to the update
EnvioEnviarParaAPI(erroRede) ==
    /\ envio.pc = "loop"
    /\ preparacao["envio"].pc = "idle"
    /\ LET idPedido == envio.pedidosPendentes[Len(envio.resultados) + 1]
       IN  IF ~erroRede /\ PreparacaoGet(idPedido) = 0
           THEN /\ preparacao' = [preparacao EXCEPT
                      !["envio"] = [pc |-> "update", idPedido |-> idPedido]]
                /\ UNCHANGED <<envio, resposta>>
           ELSE /\ envio' = EnvioPush(envio, FALSE)
                /\ resposta' = EnvioResposta(envio')
                /\ UNCHANGED preparacao
    /\ UNCHANGED <<tabela, agora, bucket, confirmacao, notificacao, ses>>

\* the lambda invoked by the sweep resumes: update and 200 (resolve), or
\* 500 (reject)
EnvioPreparacaoUpdate(falha) ==
    /\ preparacao["envio"].pc = "update"
    /\ IF falha
       THEN UNCHANGED tabela
       ELSE tabela' = PreparacaoUpdate(preparacao["envio"].idPedido)
    /\ preparacao' = [preparacao EXCEPT !["envio"] = PreparacaoIdle]
    /\ envio' = EnvioPush(envio, ~falha)
    /\ resposta' = EnvioResposta(envio')
    /\ UNCHANGED <<agora, bucket, confirmacao, notificacao, ses>>

\* time passes
Tick(max) ==
    /\ agora < max * TickMinutos * MsPorMinuto
    /\ agora' = agora + TickMinutos * MsPorMinuto
    /\ UNCHANGED <<tabela, resposta, preparacao, envio, bucket, confirmacao,
                   notificacao, ses>>

----------------------------------------------------------------------------
(* Strings the code inspects character by character *)

RECURSIVE ReplaceAll(_, _, _)
ReplaceAll(s, de, para) ==
    IF s = <<>> THEN <<>>
    ELSE <<IF Head(s) = de THEN para ELSE Head(s)>>
         \o ReplaceAll(Tail(s), de, para)

\* decodeURIComponent, for the escapes an S3 event key can carry here
RECURSIVE decodeURIComponent(_)
decodeURIComponent(s) ==
    IF s = <<>> THEN <<>>
    ELSE IF Len(s) >= 3 /\ SubSeq(s, 1, 3) = <<"%", "2", "B">>
         THEN <<"+">> \o decodeURIComponent(SubSeq(s, 4, Len(s)))
         ELSE <<Head(s)>> \o decodeURIComponent(Tail(s))

LowerChar(c) ==
    CASE c = "B" -> "b" [] c = "D" -> "d" [] c = "F" -> "f"
      [] c = "P" -> "p" [] OTHER -> c

toLowerCase(s) == [i \in 1..Len(s) |-> LowerChar(s[i])]

endsWith(s, sufixo) ==
    /\ Len(s) >= Len(sufixo)
    /\ SubSeq(s, Len(s) - Len(sufixo) + 1, Len(s)) = sufixo

\* key.split('/').pop()
RECURSIVE SplitPop(_)
SplitPop(s) ==
    IF \A i \in 1..Len(s) : s[i] # "/" THEN s
    ELSE SplitPop(Tail(s))

PontoPdf == <<".", "p", "d", "f">>

----------------------------------------------------------------------------
(* S3 bucket and its ObjectCreated events *)

ChaveA == <<"a", ".", "p", "d", "f">>
ChaveB == <<"d", "/", "B", " ", "+", ".", "P", "D", "F">>
ChaveC == <<"c", ".", "p", "d", "f">>
ChaveE == <<"e", ".", "p", "d", "f">>
ChaveT == <<"a", ".", "t", "x", "t">>

\* the key as an S3 event record carries it: '+' escaped, then ' ' as '+'
RECURSIVE EventKey(_)
EventKey(key) ==
    IF key = <<>> THEN <<>>
    ELSE (CASE Head(key) = "+" -> <<"%", "2", "B">>
            [] Head(key) = " " -> <<"+">>
            [] OTHER -> <<Head(key)>>) \o EventKey(Tail(key))

SemMetadata == [k \in {} |-> ""]

\* S3 returns user metadata under lower-cased names
Metadata(idPedido) == [idpedido |-> idPedido]

\* objects in the bucket: two documents of one order, one of another order,
\* one naming an order that does not exist, one without metadata, and one
\* that is no PDF
BucketDocumentos ==
    (ChaveA :> Metadata("u1")) @@ (ChaveB :> Metadata("u1"))
    @@ (ChaveC :> Metadata("u2")) @@ (ChaveE :> SemMetadata)
    @@ (ChaveT :> Metadata("u2"))

----------------------------------------------------------------------------
(* POST /pedidos/:idPedido/upload *)

\* no file part in the request: req.file is undefined
SemArquivo == <<>>

\* PutObjectCommand: stores the object under the key, replacing any object
\* that has it
PutObject(b, key, metadata) ==
    [k \in DOMAIN b \cup {key} |-> IF k = key THEN metadata ELSE b[k]]

\* `${Date.now()}-${req.file.originalname}`
FileKey(originalname) == <<ToString(agora), "-">> \o originalname

\* the user metadata of an uploaded object, as S3 returns it
UploadMetadata(idPedido) ==
    [idpedido |-> idPedido, dataupload |-> toISOString(agora)]

\* UploadGet without the check that the item exists
UploadGetSemItem(idPedido) == 0

\* the handler up to the result of its GetCommand: 404, or 0 when it goes
\* on to the PutObjectCommand
UploadGet(idPedido) == IF ~HasItem(tabela, idPedido) THEN 404 ELSE 0

\* the whole handler; no handler deletes an item, so the order found by the
\* GetCommand is still there at the PutObjectCommand.  falha: the
\* GetCommand or the PutObjectCommand rejects.
POSTUpload(idPedido, file, falha) ==
    /\ IF file = SemArquivo
       THEN /\ resposta' = Resposta("POST upload", 400, idPedido)
            /\ UNCHANGED bucket
       ELSE IF falha
       THEN /\ resposta' = Resposta("POST upload", 500, idPedido)
            /\ UNCHANGED bucket
       ELSE IF UploadGet(idPedido) # 0
       THEN /\ resposta' = Resposta("POST upload", UploadGet(idPedido), idPedido)
            /\ UNCHANGED bucket
       ELSE /\ bucket' = PutObject(bucket, FileKey(file), UploadMetadata(idPedido))
            /\ resposta' = Resposta("POST upload", 200, idPedido)
    /\ UNCHANGED <<tabela, agora, preparacao, envio, confirmacao,
                   notificacao, ses>>

----------------------------------------------------------------------------
(* lambda-confirmacao: one S3 event batch *)

\* MetadataIdPedido falling back to a fixed identifier
MetadataIdPedidoFixo(metadata) ==
    IF "idpedido" \in DOMAIN metadata /\ metadata.idpedido # ""
    THEN metadata.idpedido
    ELSE "g1"

\* headResponse.Metadata?.idpedido || headResponse.Metadata?.idPedido
MetadataIdPedido(metadata) ==
    IF "idpedido" \in DOMAIN metadata /\ metadata.idpedido # ""
    THEN metadata.idpedido
    ELSE IF "idPedido" \in DOMAIN metadata /\ metadata.idPedido # ""
         THEN metadata.idPedido
         ELSE Undefined

RecordKey(eventKey) == decodeURIComponent(ReplaceAll(eventKey, "+", " "))

\* EhPdf without the test of the extension
EhPdfSempre(key) == TRUE

EhPdf(key) == endsWith(toLowerCase(key), PontoPdf)

ConfirmacaoSets(key) ==
    [status         |-> AttrS("ENVIADO"),
     dataEnvio      |-> AttrS(toISOString(agora)),
     referenciaNota |-> AttrS(SplitPop(key))]

\* ConfirmacaoUpdate as a PutCommand of the key and the shipment attributes
ConfirmacaoUpdatePut(idPedido, key) ==
    PutItem(tabela, [idPedido |-> AttrS(idPedido)] @@ ConfirmacaoSets(key))

\* the table after the handler's UpdateCommand for one record
ConfirmacaoUpdate(idPedido, key) ==
    UpdateItem(tabela, idPedido, ConfirmacaoSets(key))

ConfirmacaoIdle == [pc |-> "idle", Records |-> <<>>, i |-> 1]

ConfirmacaoInicio(Records) ==
    /\ confirmacao.pc = "idle"
    /\ confirmacao' = [pc |-> "loop", Records |-> Records, i |-> 1]
    /\ UNCHANGED <<tabela, agora, resposta, preparacao, envio, bucket,
                   notificacao, ses>>

\* after record i: the next record, or return 200 after the last
ConfirmacaoContinue ==
    IF confirmacao.i = Len(confirmacao.Records)
    THEN /\ confirmacao' = ConfirmacaoIdle
         /\ resposta' = Resposta("lambda-confirmacao", 200, Undefined)
    ELSE /\ confirmacao' = [confirmacao EXCEPT !.i = confirmacao.i + 1]
         /\ UNCHANGED resposta

\* the catch block rethrows: the invocation ends with an error
ConfirmacaoThrow ==
    /\ confirmacao' = ConfirmacaoIdle
    /\ resposta' = Resposta("lambda-confirmacao", 0, Undefined)

\* one iteration of the loop over event.Records; an error of HeadObject
\* or of the update is thrown out of the loop
ConfirmacaoRecord(falha) ==
    /\ confirmacao.pc = "loop"
    /\ LET key == RecordKey(confirmacao.Records[confirmacao.i])
           idPedido == MetadataIdPedido(bucket[key])
       IN  IF ~EhPdf(key)
           THEN ConfirmacaoContinue /\ UNCHANGED tabela
           ELSE IF falha \/ key \notin DOMAIN bucket
           THEN ConfirmacaoThrow /\ UNCHANGED tabela
           ELSE IF idPedido = Undefined
           THEN ConfirmacaoContinue /\ UNCHANGED tabela
           ELSE /\ tabela' = ConfirmacaoUpdate(idPedido, key)
                /\ ConfirmacaoContinue
    /\ UNCHANGED <<agora, preparacao, envio, bucket, notificacao, ses>>

----------------------------------------------------------------------------
(* lambda-notificacao: one DynamoDB Stream batch *)

\* emailTemplates[status]: one of the three templates, a property every
\* object inherits (truthy, but with no subject and no body function), or
\* undefined
ComTemplate == {"RECEBIMENTO", "PREPARACAO", "ENVIADO"}
Herdadas == {"constructor", "toString", "valueOf", "hasOwnProperty", "__proto__"}

\* Subject with the lines of PREPARACAO and ENVIADO exchanged
SubjectTrocado(status) ==
    CASE status = "RECEBIMENTO" -> "Pedido Recebido - Confirmacao"
      [] status = "PREPARACAO" -> "Pedido Enviado"
      [] status = "ENVIADO" -> "Pedido em Preparacao"

\* the subject lines, without their diacritics
Subject(status) ==
    CASE status = "RECEBIMENTO" -> "Pedido Recebido - Confirmacao"
      [] status = "PREPARACAO" -> "Pedido em Preparacao"
      [] status = "ENVIADO" -> "Pedido Enviado"

\* value.toFixed(2) of a whole number
toFixed2(n) == <<ToString(n), ".", "0", "0">>

\* new Date(iso).toLocaleString('pt-BR')
toLocaleString(iso) == <<"pt-BR", DateParse(iso)>>

\* x ? f(x) : 'N/A' and x || 'N/A' over x = image.campo?.S || null
OuNA(image, campo, iso) ==
    IF OptS(image, campo) = Undefined THEN <<"N/A">>
    ELSE IF iso THEN toLocaleString(image[campo].S)
    ELSE image[campo].S

\* parseFloat(newImage.valor?.N || 0)
Valor(image) ==
    IF "valor" \in DOMAIN image /\ "N" \in DOMAIN image.valor
    THEN image.valor.N ELSE 0

\* template.body(pedido): the fields each template interpolates
Body(status, image) ==
    LET base == [nomeCliente |-> OptS(image, "nomeCliente"),
                 idPedido    |-> OptS(image, "idPedido"),
                 valor       |-> toFixed2(Valor(image)),
                 status      |-> status]
    IN  CASE status = "RECEBIMENTO" ->
               base @@ [h2 |-> "Pedido Recebido com Sucesso!",
                        data |-> IF OptS(image, "data") = Undefined
                                 THEN <<"Invalid Date">>
                                 ELSE toLocaleString(image.data.S)]
          [] status = "PREPARACAO" ->
               base @@ [h2 |-> "Seu Pedido Esta Sendo Preparado!"]
          [] status = "ENVIADO" ->
               base @@ [h2 |-> "Seu Pedido Foi Enviado!",
                        dataEnvio |-> OuNA(image, "dataEnvio", TRUE),
                        referenciaNota |-> OuNA(image, "referenciaNota", FALSE)]

\* the SendEmailCommand input
EmailParams(status, image) ==
    [ToAddresses |-> <<OptS(image, "emailCliente")>>,
     Subject     |-> Subject(status),
     Html        |-> Body(status, image)]

\* NotificacaoDecide comparing the whole images instead of the statuses
NotificacaoDecideImagens(record) ==
    IF record.eventName # "MODIFY" THEN "skip"
    ELSE LET newImage == record.dynamodb.NewImage
             newStatus == OptS(newImage, "status")
         IN  IF record.dynamodb.OldImage = newImage THEN "skip"
             ELSE IF newStatus \notin ComTemplate \cup Herdadas THEN "skip"
             ELSE IF OptS(newImage, "emailCliente") \in {Undefined, ""}
                  THEN "skip"
             ELSE IF newStatus \in Herdadas THEN "throw"
             ELSE "send"

\* NotificacaoDecide without the test of eventName
NotificacaoDecideSemFiltro(record) ==
    LET newImage == record.dynamodb.NewImage
        oldStatus == IF "OldImage" \in DOMAIN record.dynamodb
                     THEN OptS(record.dynamodb.OldImage, "status")
                     ELSE Undefined
        newStatus == OptS(newImage, "status")
    IN  IF oldStatus = newStatus THEN "skip"
        ELSE IF newStatus \notin ComTemplate \cup Herdadas THEN "skip"
        ELSE IF OptS(newImage, "emailCliente") \in {Undefined, ""}
             THEN "skip"
        ELSE IF newStatus \in Herdadas THEN "throw"
        ELSE "send"

\* NotificacaoDecide comparing the whole images instead of the statuses
NotificacaoDecideQualquerMudanca(record) ==
    IF record.eventName # "MODIFY" THEN "skip"
    ELSE LET newImage == record.dynamodb.NewImage
             newStatus == OptS(newImage, "status")
         IN  IF record.dynamodb.OldImage = newImage THEN "skip"
             ELSE IF newStatus \notin ComTemplate \cup Herdadas THEN "skip"
             ELSE IF OptS(newImage, "emailCliente") \in {Undefined, ""}
                  THEN "skip"
             ELSE IF newStatus \in Herdadas THEN "throw"
             ELSE "send"

\* what the loop body does with one stream record: "skip" (continue),
\* "throw" (template.body is not a function), or "send"
NotificacaoDecide(record) ==
    IF record.eventName # "MODIFY" THEN "skip"
    ELSE LET newImage == record.dynamodb.NewImage
             oldStatus == IF "OldImage" \in DOMAIN record.dynamodb
                          THEN OptS(record.dynamodb.OldImage, "status")
                          ELSE Undefined
             newStatus == OptS(newImage, "status")
         IN  IF oldStatus = newStatus THEN "skip"
             ELSE IF newStatus \notin ComTemplate \cup Herdadas THEN "skip"
             ELSE IF OptS(newImage, "emailCliente") \in {Undefined, ""}
                  THEN "skip"
             ELSE IF newStatus \in Herdadas THEN "throw"
             ELSE "send"

NotificacaoIdle == [pc |-> "idle", Records |-> <<>>, i |-> 1]

\* the invocation is over; event.Records and the loop position stay as
\* they were
NotificacaoFim == [notificacao EXCEPT !.pc = "idle"]

\* an invocation starts on a batch of stream records
NotificacaoInicio(Records) ==
    /\ notificacao.pc = "idle"
    /\ notificacao' = [pc |-> "loop", Records |-> Records, i |-> 1]
    /\ UNCHANGED <<tabela, agora, resposta, preparacao, envio, bucket,
                   confirmacao, ses>>

\* after record i: the next record, or return 200 after the last
NotificacaoContinue ==
    IF notificacao.i = Len(notificacao.Records)
    THEN /\ notificacao' = NotificacaoFim
         /\ resposta' = Resposta("lambda-notificacao", 200, Undefined)
    ELSE /\ notificacao' = [notificacao EXCEPT !.i = notificacao.i + 1]
         /\ UNCHANGED resposta

\* the catch block rethrows: the invocation ends with an error
NotificacaoThrow ==
    /\ notificacao' = NotificacaoFim
    /\ resposta' = Resposta("lambda-notificacao", 0, Undefined)

\* one iteration of the loop over event.Records; falha: sesClient.send
\* rejects, which is thrown out of the loop
NotificacaoRecord(falha) ==
    /\ notificacao.pc = "loop"
    /\ LET record == notificacao.Records[notificacao.i]
           decide == NotificacaoDecide(record)
           email == EmailParams(record.dynamodb.NewImage.status.S,
                                record.dynamodb.NewImage)
       IN  CASE decide = "skip" -> NotificacaoContinue /\ UNCHANGED ses
             [] decide = "throw" -> NotificacaoThrow /\ UNCHANGED ses
             [] decide = "send" ->
                  /\ ses' = Append(ses, email @@ [enviado |-> ~falha])
                  /\ IF falha THEN NotificacaoThrow ELSE NotificacaoContinue
    /\ UNCHANGED <<tabela, agora, preparacao, envio, bucket, confirmacao>>

----------------------------------------------------------------------------
(* The order pipeline: orders are created, advanced by clients and shipped *)
(* by document events; the bucket already holds the documents.             *)

Valores == {10}

BodyBase == [emailCliente : Emails, nomeCliente : Nomes, valor : Valores]

\* request bodies that lack one of the required fields
BodiesIncompletos ==
    [emailCliente : Emails, nomeCliente : Nomes]
    \cup [emailCliente : Emails, valor : Valores]
    \cup [nomeCliente : Nomes, valor : Valores]

\* request bodies of POST /pedidos: status omitted, and a required field
\* missing
Bodies == BodyBase \cup BodiesIncompletos

\* S3 delivers the event of each object in a batch of its own, at any
\* time after the object is stored, any number of times
Batches == {<<EventKey(key)>> : key \in DOMAIN bucket}

InitBase ==
    /\ tabela = [k \in {} |-> 0]
    /\ agora = 0
    /\ resposta = SemResposta
    /\ preparacao = [c \in Chamadores |-> PreparacaoIdle]
    /\ envio = EnvioIdle
    /\ confirmacao = ConfirmacaoIdle
    /\ notificacao = NotificacaoIdle
    /\ ses = <<>>

Init == InitBase /\ bucket = BucketDocumentos

Next ==
    \/ \E body \in Bodies : POSTPedidos(body, MaxPedidos)
    \/ \E id \in DOMAIN tabela \cup Fantasmas \cup {""} : APIPreparacao(id)
    \/ \E falha \in BOOLEAN : APIPreparacaoUpdate(falha)
    \/ \E Records \in Batches : ConfirmacaoInicio(Records)
    \/ \E falha \in BOOLEAN : ConfirmacaoRecord(falha)
    \/ Tick(MaxTicks)

Spec == Init /\ [][Next]_vars

----------------------------------------------------------------------------
(* The sweep: orders are created (with or without a status), time passes,  *)
(* the scheduled sweep and clients advance them.                           *)

BodiesEnvio == BodyBase \cup {b @@ [status |-> StatusScan] : b \in BodyBase}

InitEnvio == InitBase /\ bucket = [k \in {} |-> SemMetadata]

NextEnvio ==
    \/ \E body \in BodiesEnvio : POSTPedidos(body, MaxPedidosEnvio)
    \/ \E id \in DOMAIN tabela : APIPreparacao(id)
    \/ \E falha \in BOOLEAN : APIPreparacaoUpdate(falha)
    \/ EnvioScan
    \/ \E erroRede \in BOOLEAN : EnvioEnviarParaAPI(erroRede)
    \/ \E falha \in BOOLEAN : EnvioPreparacaoUpdate(falha)
    \/ Tick(MaxTicksEnvio)

SpecEnvio == InitEnvio /\ [][NextEnvio]_vars

----------------------------------------------------------------------------
(* The change detector on one stream batch: the batch is any sequence of   *)
(* stream records over the images below.                                   *)

MaxRecordsNotif == 2   \* records in one stream batch

\* the shipment attributes an image carries: none, or a date and a file name
SemEnvio == [referenciaNota |-> AttrNULL, dataEnvio |-> AttrNULL]
Envio(ms, key) ==
    [referenciaNota |-> AttrS(SplitPop(key)), dataEnvio |-> AttrS(toISOString(ms))]

\* the image of an order: created by POST /pedidos (comEmail), or created
\* by an update for a key that had no item (no customer attributes)
Imagem(status, comEmail, envioAttrs) ==
    [idPedido |-> AttrS("u1"), status |-> AttrS(status)] @@ envioAttrs
    @@ (IF comEmail
        THEN [emailCliente |-> AttrS("ana@x"), nomeCliente |-> AttrS("Ana"),
              valor |-> AttrN(10), data |-> AttrS(toISOString(0))]
        ELSE [k \in {} |-> 0])

StatusAntigos == {"RECEBIDO", "PREPARACAO", "ENVIADO"}
StatusNovos == {"RECEBIDO", "RECEBIMENTO", "PREPARACAO", "ENVIADO", "constructor"}

\* the status a creation may carry: POST /pedidos stores the one supplied
StatusCriacao == {"RECEBIDO", "RECEBIMENTO", "PREPARACAO", "ENVIADO"}

EnvioAntigo(old) == IF old = "ENVIADO" THEN Envio(0, ChaveA) ELSE SemEnvio

\* a MODIFY record: a shipment rewrites the shipment attributes, any other
\* update keeps them
Modify(old, new, comEmail) ==
    [eventName |-> "MODIFY",
     dynamodb |->
       [OldImage |-> Imagem(old, comEmail, EnvioAntigo(old)),
        NewImage |-> Imagem(new, comEmail,
                            IF new = "ENVIADO"
                            THEN Envio(TickMinutos * MsPorMinuto, ChaveB)
                            ELSE EnvioAntigo(old))]]

Insert(new, comEmail) ==
    [eventName |-> "INSERT",
     dynamodb |-> [NewImage |-> Imagem(new, comEmail, SemEnvio)]]

StreamRecords ==
    {Modify(old, new, comEmail) :
        old \in StatusAntigos, new \in StatusNovos, comEmail \in BOOLEAN}
    \cup {Insert(new, TRUE) : new \in StatusCriacao}

BatchesNotif == UNION {[1..n -> StreamRecords] : n \in 1..MaxRecordsNotif}

InitNotif ==
    /\ tabela = [k \in {} |-> 0]
    /\ agora = 0
    /\ resposta = SemResposta
    /\ preparacao = [c \in Chamadores |-> PreparacaoIdle]
    /\ envio = EnvioIdle
    /\ bucket = [k \in {} |-> SemMetadata]
    /\ confirmacao = ConfirmacaoIdle
    /\ ses = <<>>
    /\ \E Records \in BatchesNotif :
          notificacao = [pc |-> "loop", Records |-> Records, i |-> 1]

NextNotif == \E falha \in BOOLEAN : NotificacaoRecord(falha)

SpecNotif == InitNotif /\ [][NextNotif]_vars

----------------------------------------------------------------------------
(* The change detector with redelivery: the stream hands a batch to the    *)
(* function at least once, and again after an invocation that ended with   *)
(* an error, so the handler may be invoked again on the batch it had.      *)

MaxEmails == 3   \* no batch is delivered again once ses holds this many

NextNotifDup ==
    \/ \E falha \in BOOLEAN : NotificacaoRecord(falha)
    \/ /\ Len(ses) < MaxEmails
       /\ NotificacaoInicio(notificacao.Records)

SpecNotifDup == InitNotif /\ [][NextNotifDup]_vars

----------------------------------------------------------------------------
(* Fair sweep: every call succeeds, the clock and the schedule keep going *)

NextEnvioOk ==
    \/ \E body \in BodiesEnvio : POSTPedidos(body, MaxPedidosEnvio)
    \/ EnvioScan
    \/ EnvioEnviarParaAPI(FALSE)
    \/ EnvioPreparacaoUpdate(FALSE)
    \/ Tick(MaxTicksEnvio)

SpecEnvioFair ==
    /\ InitEnvio
    /\ [][NextEnvioOk]_vars
    /\ WF_vars(Tick(MaxTicksEnvio))
    /\ WF_vars(EnvioScan)
    /\ WF_vars(EnvioEnviarParaAPI(FALSE))
    /\ WF_vars(EnvioPreparacaoUpdate(FALSE))

----------------------------------------------------------------------------
(* Document intake on batches of several events: orders are created, time  *)
(* passes, and S3 delivers events for the objects of the bucket in batches. *)

MaxRecordsConf == 2    \* records in one S3 event batch

BatchesConf ==
    UNION {[1..n -> {EventKey(key) : key \in DOMAIN bucket}] :
              n \in 1..MaxRecordsConf}

NextConf ==
    \/ \E body \in BodyBase : POSTPedidos(body, MaxPedidos)
    \/ \E Records \in BatchesConf : ConfirmacaoInicio(Records)
    \/ \E falha \in BOOLEAN : ConfirmacaoRecord(falha)
    \/ Tick(MaxTicks)

SpecConf == Init /\ [][NextConf]_vars

\* the same, with S3 and DynamoDB answering every call
NextConfOk ==
    \/ \E body \in BodyBase : POSTPedidos(body, MaxPedidos)
    \/ \E Records \in BatchesConf : ConfirmacaoInicio(Records)
    \/ ConfirmacaoRecord(FALSE)
    \/ Tick(MaxTicks)

SpecConfOk == Init /\ [][NextConfOk]_vars

----------------------------------------------------------------------------
(* Order creation: POST /pedidos with every kind of body, as time passes *)

MaxPedidosPost == 2    \* orders created in the creation specification

ValoresPedidos == {10, 0, 0 - 5}

SemCampos == [k \in {} |-> ""]

\* a body may carry a status (one of the lifecycle or any other string) and
\* the shipment fields
StatusOpcional == {SemCampos, [status |-> "CANCELADO"]}
EnvioOpcional ==
    {SemCampos,
     [referenciaNota |-> <<"n", "f">>, dataEnvio |-> toISOString(0)]}

BodiesPedidos ==
    {b @@ st @@ e :
        b \in [emailCliente : Emails, nomeCliente : Nomes, valor : ValoresPedidos],
        st \in StatusOpcional, e \in EnvioOpcional}

NextPedidos ==
    \/ \E body \in BodiesPedidos : POSTPedidos(body, MaxPedidosPost)
    \/ Tick(MaxTicks)

SpecPedidos == InitEnvio /\ [][NextPedidos]_vars

----------------------------------------------------------------------------
(* Uploads: orders are created, clients upload documents for them and for *)
(* identifiers no order has, with and without a file.                     *)

MaxPedidosUpload == 2  \* orders created in the upload specification

\* the file of the request: multer accepts any
Arquivos == {ChaveA}

NextUpload ==
    \/ \E body \in BodyBase : POSTPedidos(body, MaxPedidosUpload)
    \/ \E idPedido \in DOMAIN tabela \cup Fantasmas,
          file \in Arquivos \cup {SemArquivo}, falha \in BOOLEAN :
            POSTUpload(idPedido, file, falha)
    \/ Tick(MaxTicks)

SpecUpload == InitEnvio /\ [][NextUpload]_vars

----------------------------------------------------------------------------
(* Repeated document events: S3 delivers an event at least once, so a      *)
(* batch may carry the event of one object several times.                  *)

MaxRecordsDup == 3   \* records in one batch of repeated events

\* two documents of the same order
ChavesDup == {ChaveA, ChaveB}

BatchesDup ==
    UNION {[1..n -> {EventKey(key) : key \in ChavesDup}] :
              n \in 1..MaxRecordsDup}

NextDup ==
    \/ \E body \in BodyBase : POSTPedidos(body, MaxPedidos)
    \/ \E Records \in BatchesDup : ConfirmacaoInicio(Records)
    \/ \E falha \in BOOLEAN : ConfirmacaoRecord(falha)
    \/ Tick(MaxTicks)

SpecDup == Init /\ [][NextDup]_vars

----------------------------------------------------------------------------
(* Properties *)

\* position of a status in the lifecycle; both spellings of the initial
\* status count as the initial stage
Rank(status) ==
    CASE status = AttrS("PREPARACAO") -> 1
      [] status = AttrS("ENVIADO") -> 2
      [] OTHER -> 0

StatusDe(t, id) == t[id].status

\* C1: an order's status never moves backward in the order
\* RECEIVED < IN_PREPARATION < SHIPPED, whatever operation is applied.
C1_StatusNeverBackward ==
    [][\A id \in DOMAIN tabela :
          /\ id \in DOMAIN tabela'
          /\ Rank(StatusDe(tabela', id)) >= Rank(StatusDe(tabela, id))]_vars

\* C2: every committed change of status is RECEIVED -> IN_PREPARATION or
\* IN_PREPARATION -> SHIPPED.
C2_OnlyLegalTransitions ==
    [][\A id \in DOMAIN tabela :
          StatusDe(tabela', id) # StatusDe(tabela, id) =>
             \/ /\ Rank(StatusDe(tabela, id)) = 0
                /\ StatusDe(tabela', id) = AttrS("PREPARACAO")
             \/ /\ StatusDe(tabela, id) = AttrS("PREPARACAO")
                /\ StatusDe(tabela', id) = AttrS("ENVIADO")]_vars

\* a step in which the sweep scans the table
ScanStep == envio.pc = "idle" /\ envio' # envio

Range(q) == {q[i] : i \in 1..Len(q)}

\* C3: one sweep selects exactly the orders that have the status POST
\* /pedidos assigns by default and are older than 4 minutes.
C3_SweepSelectsAgedReceived ==
    [][ScanStep =>
          Range(envio'.pedidosPendentes) =
             {id \in DOMAIN tabela :
                 /\ StatusDe(tabela, id) = AttrS(StatusPadrao)
                 /\ agora - DateParse(tabela[id].data.S)
                        > LimiteMinutos * MsPorMinuto}]_vars

\* C4: an order created without a status eventually reaches PREPARACAO
\* when the clock and the sweep keep running and every call succeeds.
C4_EventuallyPromoted ==
    \A id \in UUIDs(MaxPedidosEnvio) :
        (id \in DOMAIN tabela /\ StatusDe(tabela, id) = AttrS(StatusPadrao))
            ~> (id \in DOMAIN tabela /\ StatusDe(tabela, id) = AttrS("PREPARACAO"))

\* the record the document handler is about to process, and the order its
\* object names
ConfKey == RecordKey(confirmacao.Records[confirmacao.i])
ConfId == MetadataIdPedido(bucket[ConfKey])

\* a step of the document handler that calls markShipped(ConfId, name)
MarkShippedStep ==
    /\ confirmacao.pc = "loop"
    /\ confirmacao' # confirmacao
    /\ EhPdf(ConfKey)
    /\ ConfId # Undefined

\* ... and whose call returned without an error
MarkShippedOk ==
    /\ MarkShippedStep
    /\ \/ confirmacao'.pc = "loop"
       \/ resposta' = Resposta("lambda-confirmacao", 200, Undefined)

\* C5: markShipped for an id without a record fails and leaves the table
\* unchanged: no record is created for that id.
C5_MarkShippedUnknownNoWrite ==
    [][(MarkShippedStep /\ ConfId \notin DOMAIN tabela) =>
          /\ tabela' = tabela
          /\ resposta' = Resposta("lambda-confirmacao", 0, Undefined)]_vars

\* the file name each document key stands for
NomeArquivo(key) ==
    CASE key = ChaveA -> <<"a", ".", "p", "d", "f">>
      [] key = ChaveB -> <<"B", " ", "+", ".", "P", "D", "F">>
      [] key = ChaveC -> <<"c", ".", "p", "d", "f">>
      [] key = ChaveE -> <<"e", ".", "p", "d", "f">>
      [] key = ChaveT -> <<"a", ".", "t", "x", "t">>

CamposFixos == {"idPedido", "emailCliente", "nomeCliente", "valor", "data"}

\* attribute campo is the same (present or absent) in items a and b
MesmoCampo(a, b, campo) ==
    /\ campo \in DOMAIN a <=> campo \in DOMAIN b
    /\ campo \in DOMAIN a => a[campo] = b[campo]

\* every order but id is the same in tables t and u
OutrosIguais(t, u, id) ==
    /\ DOMAIN t = DOMAIN u
    /\ \A o \in DOMAIN t \ {id} : t[o] = u[o]

\* C6: markShipped on an existing order sets status ENVIADO, dataEnvio to
\* the current time and referenciaNota to the file name, and leaves the
\* order's idPedido, emailCliente, nomeCliente, valor and data, and every
\* other order, unchanged.
C6_MarkShippedFrame ==
    [][(MarkShippedOk /\ ConfId \in DOMAIN tabela) =>
          /\ OutrosIguais(tabela, tabela', ConfId)
          /\ tabela'[ConfId].status = AttrS("ENVIADO")
          /\ tabela'[ConfId].dataEnvio = AttrS(toISOString(agora))
          /\ tabela'[ConfId].referenciaNota =
                 AttrS(NomeArquivo(ConfKey))
          /\ \A campo \in CamposFixos :
                 MesmoCampo(tabela[ConfId], tabela'[ConfId], campo)]_vars

\* an order created by POST /pedidos was shipped by a later document event
\* while another order exists
C6_Witness ==
    /\ resposta = Resposta("lambda-confirmacao", 200, Undefined)
    /\ agora > 0
    /\ \E id \in DOMAIN tabela :
          /\ "emailCliente" \in DOMAIN tabela[id]
          /\ tabela[id].data = AttrS(toISOString(0))
          /\ tabela[id].status = AttrS("ENVIADO")
          /\ tabela[id].dataEnvio = AttrS(toISOString(agora))
          /\ tabela[id].referenciaNota = AttrS(NomeArquivo(ChaveB))
          /\ DOMAIN tabela # {id}

\* a step in which lambda-preparacao answers a client
PreparacaoRespondeStep ==
    /\ resposta' # resposta
    /\ resposta'.de = "lambda-preparacao"

\* C7: advanceToPreparation for an id without a record answers 404 and
\* writes nothing to the table.
C7_AdvanceUnknownNotFound ==
    [][(/\ PreparacaoRespondeStep
        /\ resposta'.idPedido # ""
        /\ resposta'.idPedido \notin DOMAIN tabela) =>
          /\ resposta'.statusCode = 404
          /\ tabela' = tabela]_vars

\* a client was answered 404 for an unknown id while orders exist
C7_Witness ==
    /\ resposta = Resposta("lambda-preparacao", 404, "g1")
    /\ "g1" \notin DOMAIN tabela
    /\ DOMAIN tabela # {}

\* a step in which a client's advanceToPreparation commits its update
AdvanceOk ==
    /\ preparacao["api"].pc = "update"
    /\ preparacao'["api"].pc = "idle"
    /\ resposta'.statusCode = 200

AdvanceId == preparacao["api"].idPedido

\* C8: advanceToPreparation on an existing order sets its status to
\* PREPARACAO and leaves every other attribute of the order, and every
\* other order, unchanged.
C8_AdvanceFrame ==
    [][AdvanceOk =>
          /\ AdvanceId \in DOMAIN tabela
          /\ OutrosIguais(tabela, tabela', AdvanceId)
          /\ tabela'[AdvanceId].status = AttrS("PREPARACAO")
          /\ DOMAIN tabela'[AdvanceId] = DOMAIN tabela[AdvanceId]
          /\ \A campo \in DOMAIN tabela[AdvanceId] \ {"status"} :
                 tabela'[AdvanceId][campo] = tabela[AdvanceId][campo]]_vars

\* a shipped order created by POST /pedidos was advanced by a client, and
\* kept its shipment attributes, while another order exists
C8_Witness ==
    /\ resposta.de = "lambda-preparacao"
    /\ resposta.statusCode = 200
    /\ resposta.idPedido \in DOMAIN tabela
    /\ DOMAIN tabela # {resposta.idPedido}
    /\ LET pedido == tabela[resposta.idPedido]
       IN  /\ "emailCliente" \in DOMAIN pedido
           /\ pedido.status = AttrS("PREPARACAO")
           /\ pedido.referenciaNota = AttrS(NomeArquivo(ChaveA))

\* the stream record the change detector is about to process
NotifRecord == notificacao.Records[notificacao.i]
NotifNew == NotifRecord.dynamodb.NewImage

\* a step in which the change detector processes NotifRecord
NotifStep == notificacao.pc = "loop" /\ notificacao' # notificacao

\* NotifRecord is a change event: it carries the snapshot before the change
ChangeEvent ==
    /\ NotifRecord.eventName = "MODIFY"
    /\ "OldImage" \in DOMAIN NotifRecord.dynamodb

StatusChanged ==
    OptS(NotifRecord.dynamodb.OldImage, "status") # OptS(NotifNew, "status")

\* the subject line of each status that has a template
Assunto(status) ==
    CASE status = "RECEBIMENTO" -> "Pedido Recebido - Confirmacao"
      [] status = "PREPARACAO" -> "Pedido em Preparacao"
      [] status = "ENVIADO" -> "Pedido Enviado"

\* C9: for a change event whose status changed, whose new status has a
\* template and whose emailCliente is not empty, the change detector issues
\* exactly one SendEmailCommand, to that address, with the subject and the
\* body of the new status.
C9_OneNotificationPerChange ==
    [][(/\ NotifStep
        /\ ChangeEvent
        /\ StatusChanged
        /\ OptS(NotifNew, "status") \in {"RECEBIMENTO", "PREPARACAO", "ENVIADO"}
        /\ OptS(NotifNew, "emailCliente") \notin {Undefined, ""}) =>
          /\ Len(ses') = Len(ses) + 1
          /\ SubSeq(ses', 1, Len(ses)) = ses
          /\ ses'[Len(ses')].ToAddresses = <<NotifNew.emailCliente.S>>
          /\ ses'[Len(ses')].Subject = Assunto(NotifNew.status.S)
          /\ ses'[Len(ses')].Html.status = NotifNew.status.S
          /\ ses'[Len(ses')].Html.idPedido = NotifNew.idPedido.S]_vars

\* a batch of the single event RECEBIDO -> PREPARACAO was processed: one
\* email, to the customer, with the PREPARACAO subject
C9_Witness ==
    /\ notificacao.pc = "idle"
    /\ notificacao.Records = <<Modify("RECEBIDO", "PREPARACAO", TRUE)>>
    /\ resposta = Resposta("lambda-notificacao", 200, Undefined)
    /\ Len(ses) = 1
    /\ ses[1].ToAddresses = <<"ana@x">>
    /\ ses[1].Subject = "Pedido em Preparacao"
    /\ ses[1].enviado

\* C10: for a change event whose old status equals its new status the
\* change detector issues no SendEmailCommand, whatever else differs.
C10_NoNotificationWithoutChange ==
    [][(NotifStep /\ ChangeEvent /\ ~StatusChanged) => ses' = ses]_vars

\* a batch was processed in which a rewrite of the shipment attributes of a
\* shipped order (same status) sent nothing and a later status change sent
\* one email
C10_Witness ==
    /\ notificacao.pc = "idle"
    /\ notificacao.Records = <<Modify("ENVIADO", "ENVIADO", TRUE),
                               Modify("PREPARACAO", "ENVIADO", TRUE)>>
    /\ notificacao.Records[1].dynamodb.OldImage
          # notificacao.Records[1].dynamodb.NewImage
    /\ resposta = Resposta("lambda-notificacao", 200, Undefined)
    /\ Len(ses) = 1

\* NotifRecord is the creation of an order: an INSERT, with no snapshot
\* before it
CreationEvent ==
    /\ NotifRecord.eventName = "INSERT"
    /\ "OldImage" \notin DOMAIN NotifRecord.dynamodb

\* C11: for the creation of an order (a stream record with no snapshot
\* before it) the change detector issues no SendEmailCommand, whatever the
\* status the order is created with.
C11_CreationNeverNotifies ==
    [][(NotifStep /\ CreationEvent) => ses' = ses]_vars

\* a batch of two creations, with statuses that have a template, was
\* processed to its end and nothing was sent
C11_Witness ==
    /\ notificacao.pc = "idle"
    /\ notificacao.Records = <<Insert("RECEBIMENTO", TRUE),
                               Insert("ENVIADO", TRUE)>>
    /\ resposta = Resposta("lambda-notificacao", 200, Undefined)
    /\ ses = <<>>

\* a change event that calls for a notification: the status changed, the
\* new status is one of the three that have a template, and the order has
\* an address
Notificavel(record) ==
    /\ record.eventName = "MODIFY"
    /\ OptS(record.dynamodb.OldImage, "status")
           # OptS(record.dynamodb.NewImage, "status")
    /\ OptS(record.dynamodb.NewImage, "status")
           \in {"RECEBIMENTO", "PREPARACAO", "ENVIADO"}
    /\ OptS(record.dynamodb.NewImage, "emailCliente") \notin {Undefined, ""}

\* C12: when the change detector is done with a batch (of events whose
\* statuses are lifecycle statuses), a SendEmailCommand was issued for
\* every event of the batch that calls for a notification, even if the
\* transport failed on one of them.
C12_TransportFailureIsolated ==
    (/\ notificacao.pc = "idle"
     /\ \A i \in 1..Len(notificacao.Records) :
           OptS(notificacao.Records[i].dynamodb.NewImage, "status")
              \in StatusCriacao)
      => Len(ses) = Cardinality({i \in 1..Len(notificacao.Records) :
                                    Notificavel(notificacao.Records[i])})

\* the step ends the invocation with the error rethrown by the catch block
NotifThrew ==
    /\ notificacao'.pc = "idle"
    /\ resposta' = Resposta("lambda-notificacao", 0, Undefined)

\* C13: a change event whose new status has none of the three templates,
\* or whose emailCliente is empty or absent, sends nothing, raises no
\* error, and is followed by the next event of the batch.
C13_SkipNeverFatal ==
    [][(/\ NotifStep
        /\ ChangeEvent
        /\ StatusChanged
        /\ \/ OptS(NotifNew, "status") \notin {"RECEBIMENTO", "PREPARACAO", "ENVIADO"}
           \/ OptS(NotifNew, "emailCliente") \in {Undefined, ""}) =>
          /\ ses' = ses
          /\ ~NotifThrew
          /\ notificacao.i < Len(notificacao.Records) =>
                /\ notificacao'.pc = "loop"
                /\ notificacao'.i = notificacao.i + 1]_vars

\* a step in which the sweep records the outcome of one promotion call
SweepPushStep ==
    /\ envio.pc = "loop"
    /\ Len(envio'.resultados) = Len(envio.resultados) + 1

\* C14: each promotion call of a sweep, failed or not, adds one outcome for
\* the order it was made for (success exactly when the order was set to
\* PREPARACAO, failure with the table untouched); after it the sweep goes
\* on to the next selected order, and after the last it returns 200.
C14_SweepFailureIsolated ==
    [][SweepPushStep =>
          LET k == Len(envio'.resultados)
              r == envio'.resultados[k]
          IN  /\ envio'.pedidosPendentes = envio.pedidosPendentes
              /\ SubSeq(envio'.resultados, 1, k - 1) = envio.resultados
              /\ r.idPedido = envio.pedidosPendentes[k]
              /\ r.sucesso => /\ r.idPedido \in DOMAIN tabela'
                              /\ tabela'[r.idPedido].status = AttrS("PREPARACAO")
              /\ ~r.sucesso => tabela' = tabela
              /\ IF k < Len(envio.pedidosPendentes)
                 THEN envio'.pc = "loop"
                 ELSE /\ envio'.pc = "idle"
                      /\ resposta' = Resposta("lambda-envio", 200, Undefined)]_vars

\* a sweep of two selected orders returned 200 after the call for the first
\* failed and the call for the second succeeded
C14_Witness ==
    /\ envio.pc = "idle"
    /\ resposta = Resposta("lambda-envio", 200, Undefined)
    /\ Len(envio.pedidosPendentes) = 2
    /\ Len(envio.resultados) = 2
    /\ ~envio.resultados[1].sucesso
    /\ envio.resultados[2].sucesso
    /\ tabela[envio.resultados[1].idPedido].status = AttrS("RECEBIMENTO")
    /\ tabela[envio.resultados[2].idPedido].status = AttrS("PREPARACAO")

\* a step that ends a sweep
SweepDone == envio' # envio /\ envio'.pc = "idle"

StreamModify(t, u, id) ==
    [eventName |-> "MODIFY",
     dynamodb |-> [OldImage |-> t[id], NewImage |-> u[id]]]

\* C16: a sweep selects no order that is in PREPARACAO, and when
\* lambda-preparacao, called by a client or by the sweep, finishes on an
\* order that is already in PREPARACAO, the table is left as it was and the
\* change detector sends nothing for that write.
C16_SweepIdempotent ==
    [][/\ ScanStep =>
            \A id \in Range(envio'.pedidosPendentes) :
                tabela[id].status # AttrS("PREPARACAO")
       /\ \A c \in Chamadores :
            (/\ preparacao[c].pc = "update"
             /\ preparacao'[c].pc = "idle"
             /\ tabela[preparacao[c].idPedido].status = AttrS("PREPARACAO")) =>
                /\ tabela' = tabela
                /\ NotificacaoDecide(StreamModify(tabela, tabela',
                                                  preparacao[c].idPedido)) = "skip"]_vars

\* an order promoted by a sweep was then advanced again by a client, at a
\* later time, with a 200 answer
C16_Witness ==
    /\ envio.pc = "idle"
    /\ resposta.de = "lambda-preparacao"
    /\ resposta.statusCode = 200
    /\ \E i \in 1..Len(envio.resultados) :
          /\ envio.resultados[i].idPedido = resposta.idPedido
          /\ envio.resultados[i].sucesso
    /\ tabela[resposta.idPedido].status = AttrS("PREPARACAO")

\* a step in which the document handler processes the record ConfKey
ConfStep == confirmacao.pc = "loop" /\ confirmacao' # confirmacao

\* the step ends the invocation with the error rethrown by the catch block
ConfThrew ==
    /\ confirmacao'.pc = "idle"
    /\ resposta' = Resposta("lambda-confirmacao", 0, Undefined)

\* the keys with the .pdf extension, in either case
TemExtensaoPdf(key) == key \in {ChaveA, ChaveB, ChaveC, ChaveE}

\* the order an object is tagged with
TagDe(key) ==
    IF "idpedido" \in DOMAIN bucket[key] THEN bucket[key].idpedido
    ELSE Undefined

\* C17: for an event whose key has the .pdf extension and whose object is
\* tagged with order X, the document handler, unless a call fails, sets X
\* to ENVIADO with the final path segment of the key as referenciaNota and
\* the current time as dataEnvio, touching no other order; for a key
\* without the .pdf extension it writes nothing to the table.
C17_RouterInvokesMarkShipped ==
    [][ConfStep =>
          /\ ~TemExtensaoPdf(ConfKey) => tabela' = tabela
          /\ ConfThrew => tabela' = tabela
          /\ (/\ TemExtensaoPdf(ConfKey)
              /\ TagDe(ConfKey) # Undefined
              /\ ~ConfThrew) =>
                LET X == TagDe(ConfKey)
                IN  /\ DOMAIN tabela' = DOMAIN tabela \cup {X}
                    /\ tabela'[X].status = AttrS("ENVIADO")
                    /\ tabela'[X].referenciaNota = AttrS(NomeArquivo(ConfKey))
                    /\ tabela'[X].dataEnvio = AttrS(toISOString(agora))
                    /\ \A o \in DOMAIN tabela \ {X} : tabela'[o] = tabela[o]]_vars

\* in a batch of two, the event of d/B +.PDF, tagged u1, marked order u1
\* shipped with the file name "B +.PDF", and the event of a.txt is next
C17_Witness ==
    /\ confirmacao.pc = "loop"
    /\ confirmacao.i = 2
    /\ confirmacao.Records = <<EventKey(ChaveB), EventKey(ChaveT)>>
    /\ "u1" \in DOMAIN tabela
    /\ "emailCliente" \in DOMAIN tabela["u1"]
    /\ tabela["u1"].status = AttrS("ENVIADO")
    /\ tabela["u1"].referenciaNota = AttrS(<<"B", " ", "+", ".", "P", "D", "F">>)

\* C18: when every call succeeds, an event for a .pdf object that carries
\* no order tag changes no order and raises no error, and the handler goes
\* on to the next event of the batch (or returns 200 after the last).
C18_UntaggedSkipped ==
    [][(/\ ConfStep
        /\ TemExtensaoPdf(ConfKey)
        /\ TagDe(ConfKey) = Undefined) =>
          /\ tabela' = tabela
          /\ ~ConfThrew
          /\ IF confirmacao.i < Len(confirmacao.Records)
             THEN /\ confirmacao'.pc = "loop"
                  /\ confirmacao'.i = confirmacao.i + 1
                  /\ confirmacao'.Records = confirmacao.Records
             ELSE resposta' = Resposta("lambda-confirmacao", 200, Undefined)]_vars

\* in a batch of two, the event of the untagged e.pdf was processed, no
\* order was written, and the event of c.pdf is next
C18_Witness ==
    /\ confirmacao.pc = "loop"
    /\ confirmacao.i = 2
    /\ confirmacao.Records = <<EventKey(ChaveE), EventKey(ChaveC)>>
    /\ DOMAIN tabela = {"u1"}
    /\ tabela["u1"].status = AttrS("RECEBIDO")

\* C19: after an event of a batch that is not the last, failed or not, the
\* document handler goes on to the next event of the batch.
C19_IntakeFailureIsolated ==
    [][(ConfStep /\ confirmacao.i < Len(confirmacao.Records)) =>
          /\ confirmacao'.pc = "loop"
          /\ confirmacao'.i = confirmacao.i + 1
          /\ confirmacao'.Records = confirmacao.Records]_vars

\* C20: a POST /pedidos whose body lacks emailCliente, nomeCliente or valor
\* is answered 400 and leaves the table as it was; an order POST /pedidos
\* does write carries all three.
C20_MissingFieldRejected ==
    [][/\ \A body \in BodiesIncompletos :
            POSTPedidos(body, MaxPedidos) =>
               /\ resposta' = Resposta("POST /pedidos", 400, Undefined)
               /\ tabela' = tabela
       /\ (resposta'.de = "POST /pedidos" /\ tabela' # tabela) =>
            /\ resposta'.statusCode = 201
            /\ resposta'.idPedido \in DOMAIN tabela' \ DOMAIN tabela
            /\ \A campo \in {"emailCliente", "nomeCliente"} :
                  OptS(tabela'[resposta'.idPedido], campo) \notin {Undefined, ""}
            /\ tabela'[resposta'.idPedido].valor.N \in Valores]_vars

\* a request lacking a required field was answered 400 after an order had
\* been created, and the table holds that order only
C20_Witness ==
    /\ resposta = Resposta("POST /pedidos", 400, Undefined)
    /\ DOMAIN tabela = {"u1"}
    /\ tabela["u1"].status = AttrS("RECEBIDO")
    /\ tabela["u1"].emailCliente = AttrS("ana@x")

\* C21: every order POST /pedidos has persisted has an amount greater than
\* zero (a request whose valor is zero or negative is refused and nothing
\* is written).
C21_AmountPositive ==
    \A id \in DOMAIN tabela : tabela[id].valor.N > 0

\* the bodies that carry the three required fields and no status
BodiesSemStatus == {body \in BodiesPedidos :
                       /\ "status" \notin DOMAIN body
                       /\ body.valor # 0}

\* C22: POST /pedidos with emailCliente, nomeCliente and valor and without
\* a status adds exactly one item, under an identifier no item had, with
\* status RECEBIDO, the fields of the body, valor equal to the number
\* supplied and data the current time; every item that existed is as it
\* was, and the answer is 201.
C22_CreateOrder ==
    [][\A body \in BodiesSemStatus :
          POSTPedidos(body, MaxPedidosPost) =>
             \E id \in DOMAIN tabela' \ DOMAIN tabela :
                /\ DOMAIN tabela' = DOMAIN tabela \cup {id}
                /\ \A o \in DOMAIN tabela : tabela'[o] = tabela[o]
                /\ tabela'[id].idPedido = AttrS(id)
                /\ tabela'[id].status = AttrS("RECEBIDO")
                /\ tabela'[id].valor = AttrN(body.valor)
                /\ tabela'[id].emailCliente = AttrS(body.emailCliente)
                /\ tabela'[id].nomeCliente = AttrS(body.nomeCliente)
                /\ tabela'[id].data = AttrS(toISOString(agora))
                /\ resposta' = Resposta("POST /pedidos", 201, id)]_vars

\* a second order was created, without a status, after time had passed;
\* the first one is still as it was created
C22_Witness ==
    /\ resposta = Resposta("POST /pedidos", 201, "u2")
    /\ DOMAIN tabela = {"u1", "u2"}
    /\ tabela["u2"].status = AttrS("RECEBIDO")
    /\ tabela["u2"].valor = AttrN(10)
    /\ tabela["u2"].data = AttrS(toISOString(agora))
    /\ tabela["u1"].data = AttrS(toISOString(0))
    /\ tabela["u1"].status = AttrS("CANCELADO")
    /\ agora > 0

\* attribute campo of the item is present and not null
NaoNulo(item, campo) == campo \in DOMAIN item /\ item[campo] # AttrNULL

\* C23: an order whose referenciaNota or dataEnvio is not null has status
\* ENVIADO.
C23_ShipmentFieldsOnlyWhenShipped ==
    \A id \in DOMAIN tabela :
        (NaoNulo(tabela[id], "referenciaNota") \/ NaoNulo(tabela[id], "dataEnvio"))
            => tabela[id].status = AttrS("ENVIADO")

\* C24: the status of every order in the table is RECEBIDO, PREPARACAO or
\* ENVIADO.
C24_StatusInEnum ==
    \A id \in DOMAIN tabela :
        tabela[id].status \in {AttrS("RECEBIDO"), AttrS("PREPARACAO"),
                               AttrS("ENVIADO")}

\* C25: no step changes the idPedido, emailCliente, nomeCliente, valor or
\* data of an order, or removes the order, and every item of the table
\* carries these five attributes.
C25_CreationFieldsKept ==
    [][/\ \A id \in DOMAIN tabela :
            /\ id \in DOMAIN tabela'
            /\ \A campo \in CamposFixos :
                  MesmoCampo(tabela[id], tabela'[id], campo)
       /\ \A id \in DOMAIN tabela' : CamposFixos \subseteq DOMAIN tabela'[id]]_vars

\* C26: an upload without a file is answered 400, an upload with a file
\* for an identifier no order has is answered 404 (unless a call fails),
\* and neither stores an object; a step that changes the bucket is an
\* upload answered 200 that stores one object tagged with an existing
\* order; so every object of the bucket is tagged with an order of the
\* table.
C26_UploadOnlyForExistingOrder ==
    [][/\ \A idPedido \in DOMAIN tabela \cup Fantasmas,
             file \in Arquivos \cup {SemArquivo} :
            /\ (\E falha \in BOOLEAN : POSTUpload(idPedido, file, falha)) =>
                  /\ file = SemArquivo =>
                        (resposta'.statusCode = 400 /\ bucket' = bucket)
                  /\ idPedido \notin DOMAIN tabela =>
                        (resposta'.statusCode \in {400, 404, 500} /\ bucket' = bucket)
            /\ (file # SemArquivo /\ idPedido \notin DOMAIN tabela
                   /\ POSTUpload(idPedido, file, FALSE)) =>
                  resposta'.statusCode = 404
       /\ bucket' # bucket =>
            /\ resposta'.de = "POST upload"
            /\ resposta'.statusCode = 200
            /\ resposta'.idPedido \in DOMAIN tabela
            /\ \E key \in DOMAIN bucket' :
                  /\ DOMAIN bucket' = DOMAIN bucket \cup {key}
                  /\ bucket'[key].idpedido = resposta'.idPedido
                  /\ \A k \in DOMAIN bucket \ {key} : bucket'[k] = bucket[k]
       /\ \A key \in DOMAIN bucket' :
            /\ "idpedido" \in DOMAIN bucket'[key]
            /\ bucket'[key].idpedido \in DOMAIN tabela']_vars

\* an upload for an identifier no order has was answered 404 after a
\* document of an existing order had been stored; the bucket holds that
\* document only
C26_Witness ==
    /\ resposta = Resposta("POST upload", 404, "g1")
    /\ "g1" \notin DOMAIN tabela
    /\ Cardinality(DOMAIN bucket) = 1
    /\ \A key \in DOMAIN bucket : bucket[key].idpedido \in DOMAIN tabela

\* the e-mails SES accepted
Entregues == {k \in 1..Len(ses) : ses[k].enviado}

\* C27: the customer receives at most one notification for each committed
\* status change, however often its change event is delivered: SES has
\* accepted no more e-mails than the batch has events that call for one.
C27_AtMostOneNotification ==
    Cardinality(Entregues)
        <= Cardinality({i \in 1..Len(notificacao.Records) :
                           Notificavel(notificacao.Records[i])})

\* the step in which the invocation of caller c commits its UpdateCommand
PreparacaoCommit(c) ==
    IF c = "api" THEN APIPreparacaoUpdate(FALSE)
    ELSE EnvioPreparacaoUpdate(FALSE)

\* C28: when the sweep's and a client's advanceToPreparation run on the
\* same order, each a read followed by a write, in any interleaving: each
\* write leaves the order in PREPARACAO with its other attributes, and
\* every other order, as they were; the write that finds the order not yet
\* in PREPARACAO is a status change the change detector mails; a write
\* that finds it in PREPARACAO changes nothing, so the stream has no
\* record of it; and an order in PREPARACAO stays there.  Hence one status
\* change and one PREPARACAO e-mail for the two invocations.
C28_ConcurrentAdvance ==
    [][/\ \A c \in Chamadores :
            (preparacao[c].pc = "update" /\ PreparacaoCommit(c)) =>
              LET id == preparacao[c].idPedido
              IN  /\ OutrosIguais(tabela, tabela', id)
                  /\ tabela'[id].status = AttrS("PREPARACAO")
                  /\ \A campo \in (DOMAIN tabela[id] \cup DOMAIN tabela'[id])
                                      \ {"status"} :
                        MesmoCampo(tabela[id], tabela'[id], campo)
                  /\ IF tabela[id].status = AttrS("PREPARACAO")
                     THEN tabela' = tabela
                     ELSE NotificacaoDecide(StreamModify(tabela, tabela', id))
                              = "send"
       /\ \A id \in DOMAIN tabela :
            tabela[id].status = AttrS("PREPARACAO") =>
                tabela'[id].status = AttrS("PREPARACAO")]_vars

\* the sweep's invocation has read an order and not yet written, and the
\* client's invocation on the same order has just committed its write
C28_Witness ==
    /\ preparacao["envio"].pc = "update"
    /\ resposta = Resposta("lambda-preparacao", 200,
                           preparacao["envio"].idPedido)
    /\ tabela[preparacao["envio"].idPedido].status = AttrS("PREPARACAO")

\* C29: when the event of a document is handled again for an order that
\* the same document has already shipped (status ENVIADO, referenciaNota
\* the document's file name), the order stays ENVIADO with the same
\* referenciaNota and the same other attributes, dataEnvio is written
\* anew with the current time, every other order is untouched, and the
\* change detector sends nothing for that write.
C29_RepeatedDocumentEvent ==
    [][(/\ MarkShippedOk
        /\ ConfId \in DOMAIN tabela
        /\ tabela[ConfId].status = AttrS("ENVIADO")
        /\ "referenciaNota" \in DOMAIN tabela[ConfId]
        /\ tabela[ConfId].referenciaNota = AttrS(NomeArquivo(ConfKey))) =>
          /\ OutrosIguais(tabela, tabela', ConfId)
          /\ tabela'[ConfId].status = AttrS("ENVIADO")
          /\ tabela'[ConfId].dataEnvio = AttrS(toISOString(agora))
          /\ \A campo \in (DOMAIN tabela[ConfId] \cup DOMAIN tabela'[ConfId])
                              \ {"dataEnvio"} :
                MesmoCampo(tabela[ConfId], tabela'[ConfId], campo)
          /\ NotificacaoDecide(StreamModify(tabela, tabela', ConfId))
                 = "skip"]_vars

\* one invocation has handled the event of a.pdf twice, the second time
\* later than the order's creation, for an order created by POST /pedidos
C29_Witness ==
    /\ confirmacao = [pc |-> "loop", i |-> 3,
                      Records |-> <<EventKey(ChaveA), EventKey(ChaveA),
                                    EventKey(ChaveB)>>]
    /\ agora > 0
    /\ "u1" \in DOMAIN tabela
    /\ "emailCliente" \in DOMAIN tabela["u1"]
    /\ tabela["u1"].data = AttrS(toISOString(0))
    /\ tabela["u1"].status = AttrS("ENVIADO")
    /\ tabela["u1"].referenciaNota = AttrS(NomeArquivo(ChaveA))
    /\ tabela["u1"].dataEnvio = AttrS(toISOString(agora))

====
